---- MODULE Spec2Model ----
(***************************************************************************)
(* gpytorch: the Lanczos diagonalization autograd function                 *)
(* (gpytorch/functions/_diagonalization.py) and the Beta likelihood        *)
(* (gpytorch/likelihoods/beta_likelihood.py).                              *)
(*                                                                         *)
(* Tensors are modelled in two ways.  Where a claim is about shapes and    *)
(* about which tensor flows where (forward/backward pairing, the autograd  *)
(* context), a tensor is a record [shape, data] whose data is a symbolic   *)
(* term naming how it was computed.  Where a claim is about values (the    *)
(* jitter, the reciprocal-gap matrix, the Beta parameters), tensors are    *)
(* sequences of integers in a stated fixed-point unit.                     *)
(***************************************************************************)
EXTENDS Integers, Sequences, FiniteSets, TLC

VARIABLES
    memory_efficient,    \* settings.memory_efficient (process-wide flag)
    pc,                  \* per call: "idle", "forward_done", "raised", "backward_done"
    ctx,                 \* per call: the autograd context object (its attributes)
    call,                \* per call: the arguments forward was called with, Lanczos's
                         \* draws (seed, num_iter) and the setting in force at the call
    ret,                 \* per call: what forward returned (eigenvalues, q_mat)
    bwd,                 \* per call: the locals q_mat, eigenvalues read by backward, and
                         \* whether another call's forward state was alive at that moment
    output,              \* per call: the tuple backward returned
    applies,             \* per call: applications of matmul_closure so far
    error,               \* per call: the exception forward raised, or "none"
    tridiagonal_jitter,  \* settings.tridiagonal_jitter.value()
    t_mat,               \* jitter computation: t_mat, one m x m matrix per batch/probe element
    to_diag,             \* jitter computation: the argument of lanczos_tridiag_to_diag
    eigenvalues,         \* K computation: the saved eigenvalue vector, in units of 1e-10
    kmat,                \* K computation: kmat after the diagonal was zeroed
    function_samples,    \* Beta likelihood: the latent function value
    scale,               \* Beta likelihood: self.scale
    dist,                \* Beta likelihood: the returned Beta's concentrations
    step                 \* value computations: "init" or "done"

vars == <<memory_efficient, pc, ctx, call, ret, bwd, output, applies, error,
          tridiagonal_jitter, t_mat, to_diag, eigenvalues, kmat,
          function_samples, scale, dist, step>>

callVars == <<memory_efficient, pc, ctx, call, ret, bwd, output, applies, error>>
jitterVars == <<tridiagonal_jitter, t_mat, to_diag>>
kVars == <<eigenvalues, kmat>>
betaVars == <<function_samples, scale, dist>>

(***************************************************************************)
(* Bounds                                                                  *)
(***************************************************************************)
NumCalls == 2     \* forward/backward pairs alive at once
MaxArgs == 2      \* parameter tensors passed as *matrix_args
MaxRank == 2      \* dimensions of a declared batch shape
MaxDim == 2       \* size of one batch dimension
MaxN == 3         \* size n of the n x n matrix
MaxIter == 2      \* max_iter

Calls == 1..NumCalls
Seeds == {1, 2}   \* outcomes of the random probe vector drawn by Lanczos

Min(a, b) == IF a < b THEN a ELSE b

(***************************************************************************)
(* Shapes and symbolic tensors                                             *)
(***************************************************************************)
\* torch.Size / None: batch_shape is None, or a (possibly empty) tuple
BatchNone == [none |-> TRUE, dims |-> <<>>]
BatchOf(dims) == [none |-> FALSE, dims |-> dims]

RECURSIVE ShapesOfRank(_)
ShapesOfRank(r) ==
    IF r = 0 THEN {<<>>}
    ELSE {Append(s, d) : s \in ShapesOfRank(r - 1), d \in 1..MaxDim}

BatchShapes == {BatchNone} \cup {BatchOf(s) : s \in UNION {ShapesOfRank(r) : r \in 0..MaxRank}}

Tensor(shape, data) == [shape |-> shape, data |-> data]

\* Tensor.ndimension()
ndimension(t) == Len(t.shape)

\* Tensor.unsqueeze(dim): dim < 0 counts from the end of the result
unsqueeze(t, dim) ==
    LET r == Len(t.shape)
        at == IF dim < 0 THEN r + 1 + dim ELSE dim      \* 0-based position of the new axis
    IN Tensor(SubSeq(t.shape, 1, at) \o <<1>> \o SubSeq(t.shape, at + 1, r), t.data)

\* Tensor.squeeze(dim), dim >= 0: removes the axis only when its size is 1
squeeze(t, dim) ==
    LET r == Len(t.shape)
    IN IF t.shape[dim + 1] = 1
       THEN Tensor(SubSeq(t.shape, 1, dim) \o SubSeq(t.shape, dim + 2, r), t.data)
       ELSE t

\* a.matmul(b) for [..., n, m] x [..., m, m'] with equal leading dimensions
matmul(a, b, data) ==
    LET r == Len(a.shape)
    IN Tensor(SubSeq(a.shape, 1, r - 1) \o <<b.shape[Len(b.shape)]>>, data)

\* a parameter tensor of the operator: the dense [n, n] contribution (batched)
ParamTensor(id, batch, n) ==
    Tensor(batch \o <<n, n>>, [kind |-> "param", params |-> <<id>>, seed |-> 0])

ParamIds(matrix_args) == [i \in 1..Len(matrix_args) |-> matrix_args[i].data.params[1]]

(***************************************************************************)
(* Collaborators of Diagonalization.forward                                *)
(***************************************************************************)
\* representation_tree(*matrix_args): the lazy tensor (the operator object); its
\* actual shape is that of the parameter tensor it is built from
representation_tree(matrix_args) ==
    [args |-> ParamIds(matrix_args), shape |-> matrix_args[1].shape]

BatchDims(batch_shape) == IF batch_shape.none THEN <<>> ELSE batch_shape.dims

\* lazy_tsr._matmul applied to a probe of the declared size: torch rejects the
\* product when the operator's actual size differs from the probe's
MatmulAccepts(lazy_tsr, matrix_shape) ==
    lazy_tsr.shape[Len(lazy_tsr.shape)] = matrix_shape[Len(matrix_shape)]

\* lanczos.lanczos_tridiag with its single default probe vector: the recurrence
\* starts by applying the operator to the probe (no validation precedes it);
\* num_iter <= min(max_iter, n) iterations complete.  Q0 is [..., n, m], T is
\* [..., m, m], with no leading dimension when there is no batch.
lanczos_tridiag(lazy_tsr, max_iter, matrix_shape, batch_shape, seed, num_iter) ==
    LET n == matrix_shape[Len(matrix_shape)]
        term(kind) == [kind |-> kind, params |-> lazy_tsr.args, seed |-> seed]
    IN IF ~MatmulAccepts(lazy_tsr, matrix_shape)
       THEN [raised |-> TRUE, error |-> "RuntimeError", applies |-> 1]
       ELSE [raised |-> FALSE, error |-> "none", applies |-> num_iter,
             q_mat |-> Tensor(BatchDims(batch_shape) \o <<n, num_iter>>, term("lanczos_q")),
             t_mat |-> Tensor(BatchDims(batch_shape) \o <<num_iter, num_iter>>, term("lanczos_t"))]

\* lanczos.lanczos_tridiag_to_diag: eigenvalues [..., m] and eigenvectors [..., m, m]
lanczos_tridiag_to_diag(t) ==
    [eigenvalues |-> Tensor(SubSeq(t.shape, 1, Len(t.shape) - 1),
                            [kind |-> "eigenvalues", params |-> t.data.params, seed |-> t.data.seed]),
     eigenvectors |-> Tensor(t.shape,
                            [kind |-> "eigenvectors", params |-> t.data.params, seed |-> t.data.seed])]

(***************************************************************************)
(* Diagonalization.forward                                                 *)
(***************************************************************************)
\* ctx.representation_tree = ... ; ... ; ctx.batch_shape = batch_shape
CtxAttributes(inp) ==
    [representation_tree |-> inp.representation_tree,
     device |-> inp.device,
     dtype |-> inp.dtype,
     matrix_shape |-> inp.matrix_shape,
     max_iter |-> inp.max_iter,
     batch_shape |-> inp.batch_shape,
     saved_tensors |-> <<>>]

\* if ctx.batch_shape is None: unsqueeze(-3); if t_mat.ndimension() == 3: unsqueeze(0)
NormalizeIn(batch_shape, t_mat_in, x) ==
    LET t1 == IF batch_shape.none THEN unsqueeze(t_mat_in, -3) ELSE t_mat_in
        x1 == IF batch_shape.none THEN unsqueeze(x, -3) ELSE x
    IN IF ndimension(t1) = 3 THEN unsqueeze(x1, 0) ELSE x1

\* if ctx.batch_shape is None: q_mat = q_mat.squeeze(1); q_mat = q_mat.squeeze(0)
SqueezeQ(batch_shape, q) ==
    squeeze(IF batch_shape.none THEN squeeze(q, 1) ELSE q, 0)

\* eigenvalues = eigenvalues.squeeze(0)
SqueezeEigenvalues(batch_shape, e) == squeeze(e, 0)

\* variant: the operator is retained whatever the setting
RetainLazyTsrAlways(c0, me, lazy_tsr) == c0 @@ [_lazy_tsr |-> lazy_tsr]

\* if settings.memory_efficient.off(): ctx._lazy_tsr = lazy_tsr
RetainLazyTsr(c0, me, lazy_tsr) ==
    IF ~me THEN c0 @@ [_lazy_tsr |-> lazy_tsr] ELSE c0

\* to_save = list(matrix_args) + [q_mat, eigenvalues]
ToSave(matrix_args, q, e) == matrix_args \o <<q, e>>

\* ctx.save_for_backward(*to_save): the tensors are stored on this call's ctx
SaveForBackward(ctxs, c, to_save) ==
    [ctxs EXCEPT ![c] = [@ EXCEPT !.saved_tensors = to_save]]

\* the whole of forward, as a function of its arguments, the memory_efficient
\* setting, and Lanczos's random probe (seed) and iteration count (num_iter)
forward(inp, me, seed, num_iter) ==
    LET ctx0 == CtxAttributes(inp)
        lazy_tsr == representation_tree(inp.matrix_args)
        lz == lanczos_tridiag(lazy_tsr, inp.max_iter, inp.matrix_shape,
                              inp.batch_shape, seed, num_iter)
    IN IF lz.raised
       THEN [raised |-> TRUE, error |-> lz.error, applies |-> lz.applies, ctx |-> ctx0]
       ELSE
       LET q0 == NormalizeIn(inp.batch_shape, lz.t_mat, lz.q_mat)
           t0 == NormalizeIn(inp.batch_shape, lz.t_mat, lz.t_mat)
           \* t_mat + jitter_mat has t_mat's shape
           eig == lanczos_tridiag_to_diag(t0)
           q1 == matmul(q0, eig.eigenvectors,
                        [kind |-> "q_mat", params |-> t0.data.params, seed |-> t0.data.seed])
           ctx1 == RetainLazyTsr(ctx0, me, lazy_tsr)
           q2 == SqueezeQ(inp.batch_shape, q1)
           e2 == SqueezeEigenvalues(inp.batch_shape, eig.eigenvalues)
       IN [raised |-> FALSE, error |-> "none", applies |-> lz.applies, ctx |-> ctx1,
           to_save |-> ToSave(inp.matrix_args, q2, e2),
           ret |-> [eigenvalues |-> e2, q_mat |-> q2]]

\* one call of Diagonalization.apply -> forward, with its own fresh ctx
Forward(c, inp, seed, num_iter) ==
    /\ pc[c] = "idle"
    /\   LET r == forward(inp, memory_efficient, seed, num_iter)
         IN /\ call' = [call EXCEPT ![c] = inp @@ [seed |-> seed, num_iter |-> num_iter,
                                                    memory_efficient |-> memory_efficient]]
            /\ applies' = [applies EXCEPT ![c] = r.applies]
            /\ error' = [error EXCEPT ![c] = r.error]
            /\ IF r.raised
               THEN /\ pc' = [pc EXCEPT ![c] = "raised"]
                    /\ ctx' = [ctx EXCEPT ![c] = r.ctx]
                    /\ UNCHANGED ret
               ELSE /\ pc' = [pc EXCEPT ![c] = "forward_done"]
                    /\ ctx' = SaveForBackward([ctx EXCEPT ![c] = r.ctx], c, r.to_save)
                    /\ ret' = [ret EXCEPT ![c] = r.ret]
    /\ UNCHANGED <<memory_efficient, bwd, output>>
    /\ UNCHANGED <<jitterVars, kVars, betaVars, step>>

(***************************************************************************)
(* Diagonalization.backward                                                *)
(***************************************************************************)
\* variant: indexes from the front, right only with one parameter tensor
SavedQFromFront(saved_tensors) == saved_tensors[2]

\* q_mat = ctx.saved_tensors[-2]
SavedQ(saved_tensors) == saved_tensors[Len(saved_tensors) - 1]

\* eigenvalues = ctx.saved_tensors[-1]
SavedEigenvalues(saved_tensors) == saved_tensors[Len(saved_tensors)]

NoGrad == [kind |-> "None"]

\* dL_dM = term1 + term2, a function of q_mat, eigenvalues and the two upstream gradients
GradTerm(q, e) ==
    [kind |-> "dL_dM", q_mat |-> q.data, eigenvalues |-> e.data,
     evals_grad_output |-> "dL/dLambda", evecs_grad_output |-> "dL/dQ"]

\* output = tuple([None] * 6 + [dL_dM])
BackwardOutput(dL_dM) == [i \in 1..6 |-> NoGrad] \o <<dL_dM>>

\* variant: backward drops the saved tensors of its ctx before returning
BackwardReleasing(c) ==
    /\ pc[c] = "forward_done"
    /\ LET q == SavedQ(ctx[c].saved_tensors)
           e == SavedEigenvalues(ctx[c].saved_tensors)
       IN /\ bwd' = [bwd EXCEPT ![c] =
                        [q_mat |-> q, eigenvalues |-> e,
                         overlapped |-> \E d \in Calls \ {c} : pc[d] = "forward_done"]]
          /\ output' = [output EXCEPT ![c] = BackwardOutput(GradTerm(q, e))]
    /\ pc' = [pc EXCEPT ![c] = "backward_done"]
    /\ ctx' = [ctx EXCEPT ![c] = [@ EXCEPT !.saved_tensors = <<>>]]
    /\ UNCHANGED <<memory_efficient, call, ret, applies, error>>
    /\ UNCHANGED <<jitterVars, kVars, betaVars, step>>

\* backward assigns nothing on ctx
Backward(c) ==
    /\ pc[c] = "forward_done"
    /\ LET q == SavedQ(ctx[c].saved_tensors)
           e == SavedEigenvalues(ctx[c].saved_tensors)
       IN /\ bwd' = [bwd EXCEPT ![c] =
                        [q_mat |-> q, eigenvalues |-> e,
                         overlapped |-> \E d \in Calls \ {c} : pc[d] = "forward_done"]]
          /\ output' = [output EXCEPT ![c] = BackwardOutput(GradTerm(q, e))]
    /\ pc' = [pc EXCEPT ![c] = "backward_done"]
    /\ UNCHANGED <<memory_efficient, ctx, call, ret, applies, error>>
    /\ UNCHANGED <<jitterVars, kVars, betaVars, step>>

\* entering or leaving a `with settings.memory_efficient(...)` block
SetMemoryEfficient ==
    /\ memory_efficient' = ~memory_efficient
    /\ UNCHANGED <<pc, ctx, call, ret, bwd, output, applies, error>>
    /\ UNCHANGED <<jitterVars, kVars, betaVars, step>>

(***************************************************************************)
(* Arguments of forward                                                    *)
(***************************************************************************)
\* declared n x n with batch_shape; the operator built from the k parameter
\* tensors is actually op_n x op_n
ForwardArgs(batch_shape, n, op_n, max_iter, k) ==
    [representation_tree |-> "representation_tree",
     device |-> "cpu",
     dtype |-> "float32",
     matrix_shape |-> <<n, n>>,
     max_iter |-> max_iter,
     batch_shape |-> batch_shape,
     matrix_args |-> [i \in 1..k |-> ParamTensor(i, BatchDims(batch_shape), op_n)]]

Declared(inp) == inp.matrix_shape[Len(inp.matrix_shape)]
Actual(inp) == inp.matrix_args[1].shape[Len(inp.matrix_args[1].shape)]

\* interleaved calls: well-formed batches of two 2 x 2 operators, of one to
\* MaxArgs parameter tensors
CallInputs ==
    {ForwardArgs(BatchOf(<<2>>), 2, 2, 2, k) : k \in 1..MaxArgs}

\* one call: every declared batch shape, size and max_iter, with one parameter
\* tensor, whose actual size may differ from the declared one
ShapeInputs ==
    {ForwardArgs(b, n, op_n, it, 1) :
        b \in BatchShapes, n \in 1..MaxN, op_n \in 1..MaxN, it \in 1..MaxIter}

CallInit ==
    /\ memory_efficient = FALSE
    /\ pc = [c \in Calls |-> "idle"]
    /\ ctx = [c \in Calls |-> <<>>]
    /\ call = [c \in Calls |-> <<>>]
    /\ ret = [c \in Calls |-> <<>>]
    /\ bwd = [c \in Calls |-> <<>>]
    /\ output = [c \in Calls |-> <<>>]
    /\ applies = [c \in Calls |-> 0]
    /\ error = [c \in Calls |-> "none"]

JitterIdle == tridiagonal_jitter = 0 /\ t_mat = <<>> /\ to_diag = <<>>
KIdle == eigenvalues = <<>> /\ kmat = <<>>
BetaIdle == function_samples = 0 /\ scale = 1 /\ dist = <<>>

Init == CallInit /\ JitterIdle /\ KIdle /\ BetaIdle /\ step = "init"

Next ==
    \/ \E c \in Calls, inp \in CallInputs, seed \in Seeds :
          Forward(c, inp, seed, Min(inp.max_iter, Declared(inp)))
    \/ \E c \in Calls : Backward(c)
    \/ SetMemoryEfficient

\* interleaved forward/backward pairs
Spec == Init /\ [][Next]_vars

NextShape ==
    \/ \E inp \in ShapeInputs, seed \in Seeds :
          \E num_iter \in 1..Min(inp.max_iter, Declared(inp)) :
             Forward(1, inp, seed, num_iter)
    \/ Backward(1)
    \/ SetMemoryEfficient

\* one forward/backward pair over every declared shape
SpecShape == Init /\ [][NextShape]_vars

(***************************************************************************)
(* Properties of forward and backward                                      *)
(***************************************************************************)
Returned(c) == pc[c] \in {"forward_done", "backward_done"}

\* C1: forward returns eigenvalues of shape batch_shape + [m] and eigenvectors of
\* shape batch_shape + [n, m] for every declared batch shape (None counting as
\* no batch dimensions)
C1_OutputShapesMatchBatch ==
    \A c \in Calls : Returned(c) =>
        LET b == BatchDims(call[c].batch_shape)
            n == Declared(call[c])
            m == call[c].num_iter
        IN /\ ret[c].eigenvalues.shape = b \o <<m>>
           /\ ret[c].q_mat.shape = b \o <<n, m>>

\* C2: backward returns one entry per input of forward: None for the six
\* non-tensor inputs, then the gradient for each of the k parameter tensors
C2_OneGradientPerInput ==
    \A c \in Calls : pc[c] = "backward_done" =>
        /\ Len(output[c]) = 6 + Len(call[c].matrix_args)
        /\ \A i \in 1..6 : output[c][i] = NoGrad
        /\ \A i \in 7..Len(output[c]) : output[c][i].kind = "dL_dM"

\* C4: in every interleaving each backward reads the Q and eigenvalues its own
\* forward returned, and while a call awaits its backward its ctx still holds them
\* behind its parameter tensors, whatever other calls did meanwhile
C4_BackwardReadsOwnForward ==
    \A c \in Calls :
        /\ Returned(c) =>
              LET k == Len(call[c].matrix_args)
              IN /\ ctx[c].saved_tensors[k + 1] = ret[c].q_mat
                 /\ ctx[c].saved_tensors[k + 2] = ret[c].eigenvalues
        /\ pc[c] = "backward_done" =>
              /\ bwd[c].q_mat = ret[c].q_mat
              /\ bwd[c].eigenvalues = ret[c].eigenvalues
              /\ output[c][7].q_mat = ret[c].q_mat.data
              /\ output[c][7].eigenvalues = ret[c].eigenvalues.data

\* two pairs overlapped (forward 1, forward 2, backward 1, backward 2), with
\* different numbers of parameter tensors and different results
C4_Witness ==
    /\ pc[1] = "backward_done" /\ pc[2] = "backward_done"
    /\ bwd[1].overlapped
    /\ Len(call[1].matrix_args) # Len(call[2].matrix_args)
    /\ ret[1].q_mat # ret[2].q_mat

C6_OperatorRetainedIffNotMemoryEfficient ==
    \A c \in Calls : Returned(c) =>
        /\ ("_lazy_tsr" \in DOMAIN ctx[c]) <=> ~call[c].memory_efficient
        /\ "_lazy_tsr" \in DOMAIN ctx[c] =>
              ctx[c]._lazy_tsr = representation_tree(call[c].matrix_args)
        /\ call[c].memory_efficient =>
              /\ DOMAIN ctx[c] = {"representation_tree", "device", "dtype", "matrix_shape",
                                  "max_iter", "batch_shape", "saved_tensors"}
              /\ Len(ctx[c].saved_tensors) = Len(call[c].matrix_args) + 2

\* one call ran with the setting on and kept no operator, another with it off
C6_Witness ==
    /\ Returned(1) /\ Returned(2)
    /\ call[1].memory_efficient /\ "_lazy_tsr" \notin DOMAIN ctx[1]
    /\ ~call[2].memory_efficient /\ "_lazy_tsr" \in DOMAIN ctx[2]

NumElems == 2      \* batch/probe elements
MaxJitter == 2     \* largest value of settings.tridiagonal_jitter
DiagVals == {-1, 1, 3}
OffDiagVals == {1}

\* the symmetric tridiagonal m x m matrix with diagonal a and off-diagonal b
Tridiag(m, a, b) ==
    [i \in 1..m |-> [j \in 1..m |->
        IF i = j THEN a[i]
        ELSE IF j = i + 1 THEN b[i]
        ELSE IF i = j + 1 THEN b[j]
        ELSE 0]]

TridiagMatrices(m) ==
    {Tridiag(m, a, b) : a \in [1..m -> DiagVals], b \in [1..(m - 1) -> OffDiagVals]}

\* lazify(t_mat).diag(): the diagonal of every element
diag(t) == [b \in DOMAIN t |-> [i \in DOMAIN t[b] |-> t[b][i][i]]]

RECURSIVE MinOfSeq(_)
MinOfSeq(v) ==
    IF Len(v) = 1 THEN v[1]
    ELSE LET rest == MinOfSeq(Tail(v)) IN IF v[1] < rest THEN v[1] ELSE rest

RECURSIVE MaxOfSeq(_)
MaxOfSeq(v) ==
    IF Len(v) = 1 THEN v[1]
    ELSE LET rest == MaxOfSeq(Tail(v)) IN IF v[1] > rest THEN v[1] ELSE rest

\* variant: the maximum diagonal entry
MaxLastDim(d) == [b \in DOMAIN d |-> <<MaxOfSeq(d[b])>>]

\* .min(dim=-1, keepdim=True)[0]: per element, over its own diagonal, [..., 1]
MinLastDim(d) == [b \in DOMAIN d |-> <<MinOfSeq(d[b])>>]

\* .unsqueeze(-1) of a [..., 1] tensor: [..., 1, 1]
UnsqueezeLast(v) == [b \in DOMAIN v |-> [i \in DOMAIN v[b] |-> <<v[b][i]>>]]

\* torch.eye(t_mat.size(-1))
eye(m) == [i \in 1..m |-> [j \in 1..m |-> IF i = j THEN 1 ELSE 0]]

\* (value * mins) * eye.expand_as(t_mat): the [..., 1, 1] factor broadcast over eye
JitterMat(value, mins, t) ==
    [b \in DOMAIN t |-> [i \in DOMAIN t[b] |-> [j \in DOMAIN t[b] |->
        (value * mins[b][1][1]) * eye(Len(t[b]))[i][j]]]]

\* t_mat + jitter_mat
AddMat(x, y) ==
    [b \in DOMAIN x |-> [i \in DOMAIN x[b] |-> [j \in DOMAIN x[b][i] |-> x[b][i][j] + y[b][i][j]]]]

\* the argument handed to lanczos.lanczos_tridiag_to_diag
JitteredTridiag(value, t) ==
    LET mins == UnsqueezeLast(MinLastDim(diag(t)))
        jitter_mat == JitterMat(value, mins, t)
    IN AddMat(t, jitter_mat)

AddJitter ==
    /\ step = "init"
    /\ to_diag' = JitteredTridiag(tridiagonal_jitter, t_mat)
    /\ step' = "done"
    /\ UNCHANGED <<tridiagonal_jitter, t_mat>>
    /\ UNCHANGED <<callVars, kVars, betaVars>>

InitJitter ==
    /\ tridiagonal_jitter \in 0..MaxJitter
    /\ t_mat \in [1..NumElems -> TridiagMatrices(MaxIter)]
    /\ to_diag = <<>>
    /\ step = "init"
    /\ CallInit /\ KIdle /\ BetaIdle

NextJitter == AddJitter

\* the jitter step of forward over every batch of tridiagonal matrices
SpecJitter == InitJitter /\ [][NextJitter]_vars

\* the least diagonal entry of element b of t_mat
LeastDiagonal(b) ==
    CHOOSE v \in {t_mat[b][i][i] : i \in DOMAIN t_mat[b]} :
        \A i \in DOMAIN t_mat[b] : v <= t_mat[b][i][i]

\* C3: the matrix handed to the eigensolver is T + eps*I with, per element,
\* eps = tridiagonal_jitter * (least diagonal entry of that element's T): every
\* diagonal entry moves by that eps, every off-diagonal entry is unchanged
C3_JitterIsMinDiagonalPerElement ==
    step = "done" =>
        \A b \in DOMAIN t_mat : \A i, j \in DOMAIN t_mat[b] :
            to_diag[b][i][j] =
                t_mat[b][i][j] + (IF i = j THEN tridiagonal_jitter * LeastDiagonal(b) ELSE 0)

\* a non-zero jitter was applied to two elements with different least diagonal
\* entries, one of them with an unequal diagonal whose least entry is not the first
C3_Witness ==
    /\ step = "done"
    /\ tridiagonal_jitter > 0
    /\ LeastDiagonal(1) # LeastDiagonal(2)
    /\ t_mat[1][1][1] > LeastDiagonal(1)
    /\ to_diag[1] # t_mat[1]

(***************************************************************************)
(* backward: the reciprocal-gap matrix.  Eigenvalues are integers in units *)
(* of 1e-10, so the constant 1e-10 is 1.  A matrix entry is the fraction   *)
(* num/den; den = 0 is the infinity a float division by zero produces.     *)
(***************************************************************************)
EpsNum == 1        \* the 1e-10 added to every eigenvalue gap
MaxLen == 3        \* number of saved eigenvalues
MaxEig == 2        \* eigenvalues range over -MaxEig..MaxEig

Frac(num, den) == [num |-> num, den |-> den]

\* eigenvalues.unsqueeze(-1): the column [m, 1]
UnsqueezeCol(v) == [i \in DOMAIN v |-> <<v[i]>>]

\* eigenvalues.unsqueeze(-2): the row [1, m]
UnsqueezeRow(v) == <<v>>

\* variant: the gap taken the other way round
GapsReversed(v) ==
    LET col == UnsqueezeCol(v)
        row == UnsqueezeRow(v)
    IN [i \in DOMAIN v |-> [j \in DOMAIN v |-> row[1][j] - col[i][1] + EpsNum]]

\* eigenvalues.unsqueeze(-1) - eigenvalues.unsqueeze(-2) + 1e-10, broadcast to [m, m]
Gaps(v) ==
    LET col == UnsqueezeCol(v)
        row == UnsqueezeRow(v)
    IN [i \in DOMAIN v |-> [j \in DOMAIN v |-> col[i][1] - row[1][j] + EpsNum]]

\* (...).reciprocal()
Reciprocal(x) == [i \in DOMAIN x |-> [j \in DOMAIN x[i] |-> Frac(1, x[i][j])]]

\* kmat[..., arange(m), arange(m)] = 0.0
ZeroDiagonal(x) ==
    [i \in DOMAIN x |-> [j \in DOMAIN x[i] |-> IF i = j THEN Frac(0, 1) ELSE x[i][j]]]

\* kmat.transpose(-1, -2)
Transpose(x) == [i \in DOMAIN x |-> [j \in DOMAIN x |-> x[j][i]]]

BuildKmat ==
    /\ step = "init"
    /\ kmat' = ZeroDiagonal(Reciprocal(Gaps(eigenvalues)))
    /\ step' = "done"
    /\ UNCHANGED eigenvalues
    /\ UNCHANGED <<callVars, jitterVars, betaVars>>

InitK ==
    /\ eigenvalues \in UNION {[1..m -> (-MaxEig)..MaxEig] : m \in 1..MaxLen}
    /\ kmat = <<>>
    /\ step = "init"
    /\ CallInit /\ JitterIdle /\ BetaIdle

NextK == BuildKmat

\* the reciprocal-gap matrix of backward over every saved eigenvalue vector
SpecK == InitK /\ [][NextK]_vars

\* C9 as stated: K[i,j] = 1/(L[j] - L[i] + eps_num) off the diagonal, 0 on it,
\* and K transposed has entry (i,j) equal to 1/(L[i] - L[j] + eps_num)
C9_GapIsLjMinusLi ==
    step = "done" =>
        \A i, j \in DOMAIN eigenvalues :
            /\ i = j => kmat[i][j] = Frac(0, 1)
            /\ i # j => /\ kmat[i][j] = Frac(1, eigenvalues[j] - eigenvalues[i] + EpsNum)
                        /\ Transpose(kmat)[i][j] =
                              Frac(1, eigenvalues[i] - eigenvalues[j] + EpsNum)

\* C9 amended: K[i,i] = 0 and K[i,j] = 1/(L[i] - L[j] + eps_num) for i # j, so
\* the matrix multiplied element-wise with Q^T dL/dQ, K transposed, has entry
\* (i,j) equal to 1/(L[j] - L[i] + eps_num)
C9_GapIsLiMinusLj ==
    step = "done" =>
        \A i, j \in DOMAIN eigenvalues :
            /\ i = j => kmat[i][j] = Frac(0, 1)
            /\ i # j => /\ kmat[i][j] = Frac(1, eigenvalues[i] - eigenvalues[j] + EpsNum)
                        /\ Transpose(kmat)[i][j] =
                              Frac(1, eigenvalues[j] - eigenvalues[i] + EpsNum)

\* K was built from three eigenvalues, two of them different
C9_Witness ==
    /\ step = "done"
    /\ Len(eigenvalues) = 3
    /\ eigenvalues[1] < eigenvalues[2]
    /\ kmat[1][2] # kmat[2][1]

\* C10: for every saved eigenvalue vector each off-diagonal entry of K has a
\* non-zero denominator of magnitude at least eps_num, so K is finite
C10_EpsIsAFloor ==
    step = "done" =>
        \A i, j \in DOMAIN eigenvalues : i # j =>
            /\ kmat[i][j].den # 0
            /\ (kmat[i][j].den >= EpsNum \/ kmat[i][j].den <= -EpsNum)

(***************************************************************************)
(* BetaLikelihood.forward.  The mixture and the concentrations are         *)
(* fixed-point numbers in units of 1/MixDen; the scale is a positive       *)
(* integer.                                                                *)
(***************************************************************************)
MixDen == 1000     \* fixed-point resolution of the mixture
MaxSample == 3     \* function_samples range over -MaxSample..MaxSample
MaxScale == 8      \* scale ranges over 1..MaxScale

RECURSIVE Pow(_, _)
Pow(b, k) == IF k = 0 THEN 1 ELSE b * Pow(b, k - 1)

\* torch.sigmoid(x) = e^x / (e^x + 1), with e taken as 19/7, rounded down
sigmoid(x) ==
    LET a == IF x >= 0 THEN x ELSE -x
        up == Pow(19, a)
        down == Pow(7, a)
    IN IF x >= 0 THEN (MixDen * up) \div (up + down)
       ELSE (MixDen * down) \div (up + down)

\* the body of forward: mixture, alpha = mixture * scale + 1, beta = scale - alpha + 2
BetaForward(f, s) ==
    LET mixture == sigmoid(f)
        alpha == mixture * s + 1 * MixDen
        beta == s * MixDen - alpha + 2 * MixDen
    IN [mixture |-> mixture, concentration1 |-> alpha, concentration0 |-> beta]

LikelihoodForward ==
    /\ step = "init"
    /\ dist' = BetaForward(function_samples, scale)
    /\ step' = "done"
    /\ UNCHANGED <<function_samples, scale>>
    /\ UNCHANGED <<callVars, jitterVars, kVars>>

InitBeta ==
    /\ function_samples \in (-MaxSample)..MaxSample
    /\ scale \in 1..MaxScale
    /\ dist = <<>>
    /\ step = "init"
    /\ CallInit /\ JitterIdle /\ KIdle

NextBeta == LikelihoodForward

\* BetaLikelihood.forward over every latent value and scale
SpecBeta == InitBeta /\ [][NextBeta]_vars

\* C8: the returned Beta has concentration1 = m*s and concentration0 = (1 - m)*s
\* for the mixture m = sigmoid(function_samples) in [0, 1], so they sum to s
C8_DocumentedParameterization ==
    step = "done" =>
        /\ 0 <= dist.mixture /\ dist.mixture <= MixDen
        /\ dist.concentration1 = dist.mixture * scale
        /\ dist.concentration0 = (MixDen - dist.mixture) * scale
        /\ dist.concentration1 + dist.concentration0 = scale * MixDen

====
